---- MODULE Spec2Model ----
(***************************************************************************)
(* Model of the SVD image-compression notebook (ICSVD.ipynb).              *)
(*                                                                         *)
(* Spec       the notebook session: svd_cache, compute_svd, the            *)
(*            initialization loop, compress_bw_image and                   *)
(*            compress_color_image as called by the interact widgets.      *)
(*            Images are represented by their shapes (the shapes printed   *)
(*            by the notebook); every np.linalg.svd call is counted.       *)
(* SpecRatio  the compression-ratio printout as a pure function of the     *)
(*            image shape and k.                                           *)
(* SpecSVD    the truncation, reconstruction, energy fraction and colour   *)
(*            rescale on small matrices with exactly known factors.        *)
(* SpecClean  remove_stop_words of the spam notebook as a pure function of *)
(*            the e-mail text, a string of characters.                     *)
(* SpecSpam   the spam notebook: the data set, drop_duplicates, the        *)
(*            cleaning, the Tokenizer, pad_sequences, the models and the   *)
(*            inference cells.                                             *)
(***************************************************************************)
EXTENDS Integers, Sequences, FiniteSets, TLC

VARIABLES svd_cache, svd_runs, color_svd_runs, color_calls, loop_i, last,
          shape, path, kk, printed,
          image, called, rank, recon, energy, final,
          text, cleaned_text, passes,
          pc, df, x, y, tokenizer, model, infer

vars == <<svd_cache, svd_runs, color_svd_runs, color_calls, loop_i, last,
          shape, path, kk, printed,
          image, called, rank, recon, energy, final,
          text, cleaned_text, passes,
          pc, df, x, y, tokenizer, model, infer>>

sessionVars == <<svd_cache, svd_runs, color_svd_runs, color_calls, loop_i, last>>
ratioVars == <<shape, path, kk, printed>>
svdVars == <<image, called, rank, recon, energy, final>>
cleanVars == <<text, cleaned_text, passes>>
spamVars == <<pc, df, x, y, tokenizer, model, infer>>

(* the variables a specification leaves alone *)
NotSession == <<ratioVars, svdVars, cleanVars, spamVars>>
NotRatio == <<sessionVars, svdVars, cleanVars, spamVars>>
NotSvd == <<sessionVars, ratioVars, cleanVars, spamVars>>
NotClean == <<sessionVars, ratioVars, svdVars, spamVars>>
NotSpam == <<sessionVars, ratioVars, svdVars, cleanVars>>

(***************************************************************************)
(* Small helpers.                                                          *)
(***************************************************************************)
Min2(a, b) == IF a <= b THEN a ELSE b
Max2(a, b) == IF a >= b THEN a ELSE b

RECURSIVE SeqMin(_)
SeqMin(s) == IF Len(s) = 1 THEN s[1] ELSE Min2(s[1], SeqMin(Tail(s)))

RECURSIVE SeqMax(_)
SeqMax(s) == IF Len(s) = 1 THEN s[1] ELSE Max2(s[1], SeqMax(Tail(s)))

(***************************************************************************)
(* The image dictionaries.  Only the shape of each image matters to the    *)
(* session and to the ratio printout; the shapes are the ones the notebook *)
(* printed for the five JPEG files.                                        *)
(***************************************************************************)
image_keys == <<"Bird", "Chandelier", "Flowers", "Tree", "Waterfall">>

ImageNames == {image_keys[i] : i \in 1..Len(image_keys)}

bw_images ==
  [Bird       |-> <<5184, 3456>>,
   Chandelier |-> <<3415, 5122>>,
   Flowers    |-> <<7329, 5497>>,
   Tree       |-> <<6000, 4000>>,
   Waterfall  |-> <<3334, 5000>>]

color_images ==
  [Bird       |-> <<5184, 3456, 3>>,
   Chandelier |-> <<3415, 5122, 3>>,
   Flowers    |-> <<7329, 5497, 3>>,
   Tree       |-> <<6000, 4000, 3>>,
   Waterfall  |-> <<3334, 5000, 3>>]

Channels == {"r", "g", "b"}

(***************************************************************************)
(* round(size1 / size2, 2) in hundredths.  Python rounds the double        *)
(* nearest to size1/size2 correctly to two decimals.  The quotient of two  *)
(* integers of this size is never within a double's rounding error of a    *)
(* midpoint unless it is the midpoint n/200 itself; there the double of    *)
(* n/200 is exact when 25 divides n (round-half-even applies) and lies     *)
(* above or below n/200 according to the remainder of n * 2^e modulo 200,  *)
(* e the exponent that scales n/200 into [2^52, 2^53).                     *)
(***************************************************************************)
RECURSIVE Pow2Mod200(_)
Pow2Mod200(e) == IF e = 0 THEN 1 ELSE (2 * Pow2Mod200(e - 1)) % 200

RECURSIVE ScaleExp(_, _, _)
ScaleExp(n, d, e) ==
  IF n >= 2 * d THEN ScaleExp(n, 2 * d, e - 1)
  ELSE IF n < d THEN ScaleExp(2 * n, d, e + 1)
  ELSE e

DoubleAboveMidpoint(n) == ((n % 200) * Pow2Mod200(ScaleExp(n, 200, 52))) % 200 > 100

RoundMidpoint(lower) ==
  LET n == 2 * lower + 1
  IN  IF n % 25 = 0
      THEN (IF lower % 2 = 0 THEN lower ELSE lower + 1)
      ELSE (IF DoubleAboveMidpoint(n) THEN lower + 1 ELSE lower)

round2(size1, size2) ==
  LET q  == size1 \div size2
      r0 == size1 % size2
      d1 == (10 * r0) \div size2
      r1 == (10 * r0) % size2
      d2 == (10 * r1) \div size2
      r2 == (10 * r1) % size2
      lower == 100 * q + 10 * d1 + d2
  IN  IF 2 * r2 < size2 THEN lower
      ELSE IF 2 * r2 > size2 THEN lower + 1
      ELSE RoundMidpoint(lower)

(***************************************************************************)
(* The printout at the end of compress_bw_image and compress_color_image:  *)
(* size1, size2 and the ratio, or the ZeroDivisionError of size1 / size2.  *)
(***************************************************************************)
Printout(size1, size2) ==
  IF size2 = 0
  THEN [size1 |-> size1, size2 |-> size2, ratio |-> -1, raised |-> "ZeroDivisionError"]
  ELSE [size1 |-> size1, size2 |-> size2, ratio |-> round2(size1, size2), raised |-> "none"]

NoPrint == [size1 |-> 0, size2 |-> 0, ratio |-> -1, raised |-> "nothing printed"]

(* variant: the k x k matrix np.diag(S[:k]) is counted instead of the k values *)
bw_ratio_square_sigma(dim1, k) ==
  Printout(dim1[1] * dim1[2], dim1[1] * k + k * k + k * dim1[2])

bw_ratio(dim1, k) ==
  Printout(dim1[1] * dim1[2], dim1[1] * k + k + k * dim1[2])

(* variant: the quotient is taken the other way round *)
color_ratio_inverted(dim1, k) ==
  LET size1 == dim1[1] * dim1[2]
      size2 == SeqMin(dim1) * k + k + k * SeqMax(dim1)
  IN  IF size2 = 0 THEN Printout(size1, size2)
      ELSE [size1 |-> size1, size2 |-> size2, ratio |-> round2(size2, size1), raised |-> "none"]

color_ratio(dim1, k) ==
  Printout(dim1[1] * dim1[2], SeqMin(dim1) * k + k + k * SeqMax(dim1))

(***************************************************************************)
(* np.linalg.svd(A, full_matrices=False) and (..., full_matrices=True) in  *)
(* the session: the factor arrays are represented by their shapes.         *)
(***************************************************************************)
svd_thin(dim) ==
  LET m == Min2(dim[1], dim[2])
  IN  [U |-> <<dim[1], m>>, S |-> <<m>>, Vt |-> <<m, dim[2]>>]

svd_full(dim) ==
  LET m == Min2(dim[1], dim[2])
  IN  [U |-> <<dim[1], dim[1]>>, S |-> <<m>>, Vt |-> <<dim[2], dim[2]>>]

(* U[:, :k], S[:k], Vt[:k, :] on factor shapes *)
SliceLen(n, k) == Min2(n, Max2(k, 0))

truncate(F, k) ==
  [U  |-> <<F.U[1], SliceLen(F.U[2], k)>>,
   S  |-> <<SliceLen(F.S[1], k)>>,
   Vt |-> <<SliceLen(F.Vt[1], k), F.Vt[2]>>]

(***************************************************************************)
(* compute_svd: st is the pair of the cache and the count of               *)
(* np.linalg.svd calls made for each grayscale image.                      *)
(***************************************************************************)
(* variant: the membership test is missing, every call factorizes again *)
compute_svd_unguarded(Image_Name, st) ==
  [cache |-> [n \in DOMAIN st.cache \cup {Image_Name} |->
                IF n = Image_Name THEN svd_thin(bw_images[Image_Name]) ELSE st.cache[n]],
   runs  |-> [st.runs EXCEPT ![Image_Name] = @ + 1]]

compute_svd(Image_Name, st) ==
  IF Image_Name \notin DOMAIN st.cache
  THEN [cache |-> st.cache @@ (Image_Name :> svd_thin(bw_images[Image_Name])),
        runs  |-> [st.runs EXCEPT ![Image_Name] = @ + 1]]
  ELSE st

(***************************************************************************)
(* compress_bw_image: ensures the factors, reads them from the cache,      *)
(* slices them and prints the sizes and the ratio.  "read" is "KeyError"   *)
(* when svd_cache has no entry for the name at the read.                   *)
(***************************************************************************)
(* variant: the call of compute_svd is missing, the cache is read as it is *)
compress_bw_image_no_compute(Image_Name, k, st) ==
  LET hit == Image_Name \in DOMAIN st.cache
  IN  [cache |-> st.cache,
       runs  |-> st.runs,
       read  |-> IF hit THEN "ok" ELSE "KeyError",
       kept  |-> IF hit THEN truncate(st.cache[Image_Name], k)
                        ELSE truncate(svd_thin(<<0, 0>>), 0),
       out   |-> bw_ratio(bw_images[Image_Name], k)]

compress_bw_image(Image_Name, k, st) ==
  LET st1 == compute_svd(Image_Name, st)
      hit == Image_Name \in DOMAIN st1.cache
  IN  [cache |-> st1.cache,
       runs  |-> st1.runs,
       read  |-> IF hit THEN "ok" ELSE "KeyError",
       kept  |-> IF hit THEN truncate(st1.cache[Image_Name], k)
                        ELSE truncate(svd_thin(<<0, 0>>), 0),
       out   |-> bw_ratio(bw_images[Image_Name], k)]

(***************************************************************************)
(* compress_color_image: factorizes the three channels on every call,      *)
(* slices, and prints the sizes and the ratio.  cst is the pair of the     *)
(* cache and the per-channel count of factorizations.                      *)
(***************************************************************************)
(* variant: the channel factors are kept after the first call on a name *)
compress_color_image_cached(Image_Name, k, cst) ==
  LET dim1 == color_images[Image_Name]
  IN  [cache |-> cst.cache,
       cruns |-> [cst.cruns EXCEPT ![Image_Name] =
                    [c \in Channels |-> IF @[c] = 0 THEN 1 ELSE @[c]]],
       kept  |-> truncate(svd_full(dim1), k),
       out   |-> color_ratio(dim1, k)]

compress_color_image(Image_Name, k, cst) ==
  LET dim1 == color_images[Image_Name]
  IN  [cache |-> cst.cache,
       cruns |-> [cst.cruns EXCEPT ![Image_Name] = [c \in Channels |-> @[c] + 1]],
       kept  |-> truncate(svd_full(dim1), k),
       out   |-> color_ratio(dim1, k)]

(***************************************************************************)
(* The interact sliders: k = (1, 600) for the grayscale widget and         *)
(* k = (0, 600) for the colour widget.  The session draws k from the ends, *)
(* the neighbour of the lower end and the initial position of each slider. *)
(***************************************************************************)
bw_k_min == 1
bw_k_max == 600
color_k_min == 0
color_k_max == 600

SliderInitial(lo, hi) == lo + ((hi - lo) \div 2)

SliderSample(lo, hi) == {lo, lo + 1, SliderInitial(lo, hi), hi}

MaxColorCalls == 2

RECURSIVE SumOver(_, _)
SumOver(f, i) == IF i = 0 THEN 0 ELSE f[image_keys[i]] + SumOver(f, i - 1)

NoCall == [fn |-> "none", Image_Name |-> "none", k |-> 0, read |-> "none",
           kept |-> truncate(svd_thin(<<0, 0>>), 0), out |-> NoPrint]

(***************************************************************************)
(* The session.  Init is the state after the cell `svd_cache = {}`.        *)
(***************************************************************************)
SessionIdle ==
  /\ svd_cache = <<>>
  /\ svd_runs = [n \in ImageNames |-> 0]
  /\ color_svd_runs = [n \in ImageNames |-> [c \in Channels |-> 0]]
  /\ color_calls = [n \in ImageNames |-> 0]
  /\ loop_i = 0
  /\ last = NoCall

RatioIdle ==
  /\ shape = <<1, 1>>
  /\ path = "none"
  /\ kk = 0
  /\ printed = NoPrint

SvdIdle ==
  /\ image = <<>>
  /\ called = "none"
  /\ rank = 0
  /\ recon = <<>>
  /\ energy = [num |-> 0, den |-> 0]
  /\ final = <<>>

CleanIdle ==
  /\ text = <<>>
  /\ cleaned_text = <<>>
  /\ passes = 0

NoTokenizer == [num_words |-> 0, word_counts |-> <<>>, word_index |-> <<>>]

NoModel == [kind |-> "none", input_dim |-> 0, input_length |-> 0, fitted |-> FALSE, trained |-> 0]

NoInference == [cell |-> "none", test_email |-> <<>>, cleaned_text |-> <<>>,
                sequence |-> <<>>, padded_sequence |-> <<>>,
                raised |-> FALSE, prediction |-> <<>>, label |-> "none"]

SpamIdle ==
  /\ pc = "none"
  /\ df = <<>>
  /\ x = <<>>
  /\ y = <<>>
  /\ tokenizer = NoTokenizer
  /\ model = NoModel
  /\ infer = NoInference

Init ==
  /\ SessionIdle
  /\ RatioIdle
  /\ SvdIdle
  /\ CleanIdle
  /\ SpamIdle

(* a direct call of compute_svd *)
ComputeSvd(Image_Name) ==
  /\ loop_i = 0
  /\ LET st1 == compute_svd(Image_Name, [cache |-> svd_cache, runs |-> svd_runs])
     IN  /\ svd_cache' = st1.cache
         /\ svd_runs' = st1.runs
         /\ last' = [NoCall EXCEPT !.fn = "compute_svd", !.Image_Name = Image_Name]
  /\ UNCHANGED <<color_svd_runs, color_calls, loop_i>>
  /\ UNCHANGED NotSession

(* the initialization cell: for image_name in bw_images.keys(): compute_svd(image_name) *)
StartInitCell ==
  /\ loop_i = 0
  /\ loop_i' = 1
  /\ UNCHANGED <<svd_cache, svd_runs, color_svd_runs, color_calls, last>>
  /\ UNCHANGED NotSession

InitLoopStep ==
  /\ loop_i \in 1..Len(image_keys)
  /\ LET st1 == compute_svd(image_keys[loop_i], [cache |-> svd_cache, runs |-> svd_runs])
     IN  /\ svd_cache' = st1.cache
         /\ svd_runs' = st1.runs
         /\ last' = [NoCall EXCEPT !.fn = "compute_svd", !.Image_Name = image_keys[loop_i]]
  /\ loop_i' = loop_i + 1
  /\ UNCHANGED <<color_svd_runs, color_calls>>
  /\ UNCHANGED NotSession

CallBw(Image_Name, k) ==
  LET res == compress_bw_image(Image_Name, k, [cache |-> svd_cache, runs |-> svd_runs])
  IN  /\ svd_cache' = res.cache
      /\ svd_runs' = res.runs
      /\ last' = [fn |-> "compress_bw_image", Image_Name |-> Image_Name, k |-> k,
                  read |-> res.read, kept |-> res.kept, out |-> res.out]

(* interact(compress_bw_image, ...) at the end of the initialization cell *)
(* displays the widget and calls the function with the initial values     *)
InitCellInteract ==
  /\ loop_i = Len(image_keys) + 1
  /\ CallBw(image_keys[1], SliderInitial(bw_k_min, bw_k_max))
  /\ loop_i' = 0
  /\ UNCHANGED <<color_svd_runs, color_calls>>
  /\ UNCHANGED NotSession

(* the grayscale widget, or a direct call, re-invokes compress_bw_image *)
CompressBw(Image_Name, k) ==
  /\ loop_i = 0
  /\ CallBw(Image_Name, k)
  /\ UNCHANGED <<color_svd_runs, color_calls, loop_i>>
  /\ UNCHANGED NotSession

(* the colour widget re-invokes compress_color_image *)
CompressColor(Image_Name, k) ==
  /\ loop_i = 0
  /\ SumOver(color_calls, Len(image_keys)) < MaxColorCalls
  /\ LET res == compress_color_image(Image_Name, k,
                                     [cache |-> svd_cache, cruns |-> color_svd_runs])
     IN  /\ svd_cache' = res.cache
         /\ color_svd_runs' = res.cruns
         /\ last' = [fn |-> "compress_color_image", Image_Name |-> Image_Name, k |-> k,
                     read |-> "none", kept |-> res.kept, out |-> res.out]
  /\ color_calls' = [color_calls EXCEPT ![Image_Name] = @ + 1]
  /\ UNCHANGED <<svd_runs, loop_i>>
  /\ UNCHANGED NotSession

Next ==
  \/ \E n \in ImageNames : ComputeSvd(n)
  \/ StartInitCell
  \/ InitLoopStep
  \/ InitCellInteract
  \/ \E n \in ImageNames : \E k \in SliderSample(bw_k_min, bw_k_max) : CompressBw(n, k)
  \/ \E n \in ImageNames : \E k \in SliderSample(color_k_min, color_k_max) : CompressColor(n, k)

Spec == Init /\ [][Next]_vars

(***************************************************************************)
(* SpecRatio: the ratio printout as a function of the image shape and k.   *)
(* The shapes are every shape up to MaxDim x MaxDim and the shapes around  *)
(* 103 x 103, where the ratio for k just below min(rows, cols)/2 comes     *)
(* within half a hundredth of 1.                                           *)
(***************************************************************************)
MaxDim == 6

LargeDims == {102, 103, 104}

RatioShapes == ((1..MaxDim) \X (1..MaxDim)) \cup (LargeDims \X LargeDims)

RatioInit ==
  /\ SessionIdle
  /\ SvdIdle
  /\ CleanIdle
  /\ SpamIdle
  /\ shape \in RatioShapes
  /\ path \in {"bw", "color"}
  /\ kk = 0
  /\ printed = NoPrint

(* the printout of compress_bw_image for an image of this shape *)
RatioBw(k) ==
  /\ path = "bw"
  /\ kk' = k
  /\ printed' = bw_ratio(shape, k)
  /\ UNCHANGED <<shape, path>>
  /\ UNCHANGED NotRatio

(* the printout of compress_color_image for an image of this shape *)
RatioColor(k) ==
  /\ path = "color"
  /\ kk' = k
  /\ printed' = color_ratio(<<shape[1], shape[2], 3>>, k)
  /\ UNCHANGED <<shape, path>>
  /\ UNCHANGED NotRatio

RatioNext ==
  \/ \E k \in 0..Min2(shape[1], shape[2]) : RatioBw(k)
  \/ \E k \in 0..Min2(shape[1], shape[2]) : RatioColor(k)

SpecRatio == RatioInit /\ [][RatioNext]_vars

(***************************************************************************)
(* Properties of the session (Spec).                                       *)
(***************************************************************************)
LastIsCompress == last.fn \in {"compress_bw_image", "compress_color_image"}

LastShape ==
  IF last.fn = "compress_color_image" THEN color_images[last.Image_Name]
  ELSE bw_images[last.Image_Name]

(* C1: over any sequence of compute_svd and compress_bw_image calls,       *)
(* svd_cache changes only by gaining an entry for a name that was absent,  *)
(* the entry holding all min(rows, cols) singular triplets; the SVD of a   *)
(* name is computed at most once; compress_bw_image on a cached name       *)
(* leaves svd_cache unchanged, whatever k.                                 *)
C1_CacheOnlyGains ==
  [][ /\ \/ svd_cache' = svd_cache
         \/ \E n \in ImageNames \ DOMAIN svd_cache :
              /\ DOMAIN svd_cache' = DOMAIN svd_cache \cup {n}
              /\ \A m \in DOMAIN svd_cache : svd_cache'[m] = svd_cache[m]
              /\ svd_cache'[n].S = <<Min2(bw_images[n][1], bw_images[n][2])>>
              /\ svd_cache'[n].U = <<bw_images[n][1], Min2(bw_images[n][1], bw_images[n][2])>>
              /\ svd_cache'[n].Vt = <<Min2(bw_images[n][1], bw_images[n][2]), bw_images[n][2]>>
      /\ \A n \in ImageNames : svd_runs'[n] <= 1
      /\ (last'.fn = "compress_bw_image" /\ last'.Image_Name \in DOMAIN svd_cache)
            => svd_cache' = svd_cache ]_vars

C1_Witness ==
  /\ last.fn = "compress_bw_image"
  /\ last.Image_Name = "Tree"
  /\ last.k = bw_k_min
  /\ last.kept.S = <<bw_k_min>>
  /\ DOMAIN svd_cache = ImageNames
  /\ svd_runs["Tree"] = 1

(* C2 as claimed: across compress_color_image calls with the same name,    *)
(* each channel of the image is factorized at most once.                   *)
C2_ColorFactorizedOnce ==
  \A n \in ImageNames : \A c \in Channels : color_svd_runs[n][c] <= 1

(* C2 as amended: compress_color_image keeps no factors; every call        *)
(* factorizes each of the three channels again, so each channel of a name  *)
(* has been factorized as many times as compress_color_image was called    *)
(* on that name, and the call leaves svd_cache as it was.                  *)
C2_ColorFactorizedEveryCall ==
  /\ [](\A n \in ImageNames : \A c \in Channels : color_svd_runs[n][c] = color_calls[n])
  /\ [][last'.fn = "compress_color_image" => svd_cache' = svd_cache]_vars

C2_Witness ==
  /\ last.fn = "compress_color_image"
  /\ color_calls[last.Image_Name] = 2
  /\ color_svd_runs[last.Image_Name]["g"] = 2

(* C3: every (Image_Name, k) the dropdown and slider pass to               *)
(* compress_bw_image or compress_color_image has 1 <= k <= min(rows, cols) *)
C3_SliderWithinPrecondition ==
  LastIsCompress =>
    /\ 1 <= last.k
    /\ last.k <= Min2(LastShape[1], LastShape[2])

(* C4: in both functions the printed compressed size is                    *)
(* rows*k + k + k*cols and the printed ratio is rows*cols over that size,  *)
(* rounded to two decimals.                                                *)
C4_PrintedSizes ==
  (LastIsCompress /\ last.k >= 1) =>
    LET rows == LastShape[1]
        cols == LastShape[2]
    IN  /\ last.out.size2 = rows * last.k + last.k + last.k * cols
        /\ last.out.ratio = round2(rows * cols, rows * last.k + last.k + last.k * cols)

(***************************************************************************)
(* Properties of the ratio printout (SpecRatio).  Ratios are in hundredths.*)
(***************************************************************************)
BelowHalfRank == 1 <= kk /\ 2 * kk < Min2(shape[1], shape[2])

(* C5 as claimed: for every shape and every k with 1 <= k < min(rows,      *)
(* cols)/2 the ratio compress_bw_image reports, after rounding to two      *)
(* decimals, is strictly greater than 1.                                   *)
C5_ReportedRatioAboveOne ==
  (path = "bw" /\ printed.raised = "none" /\ BelowHalfRank) => printed.ratio > 100

(* C5 as amended: for every shape and every k with 1 <= k < min(rows,      *)
(* cols)/2 the compressed size is strictly smaller than the original size  *)
(* (the unrounded ratio is above 1) and the reported, rounded ratio is at  *)
(* least 1.0; it is exactly 1.0 for a 103 x 103 image and k = 51.          *)
C5_ReportedRatioAtLeastOne ==
  (path = "bw" /\ printed.raised = "none" /\ BelowHalfRank) =>
    /\ printed.size1 > printed.size2
    /\ printed.ratio >= 100

C5_Witness ==
  /\ path = "bw"
  /\ shape = <<103, 103>>
  /\ kk = 51
  /\ printed.size1 = 10609
  /\ printed.size2 = 10557
  /\ printed.ratio = 100

(* C6: for a fixed image and k1 < k2 in the valid range, the ratio         *)
(* reported for k2 is at most the one reported for k1, in the grayscale    *)
(* and in the colour path.                                                 *)
C6_RatioNonIncreasing ==
  [][(printed.raised = "none" /\ printed'.raised = "none" /\ 1 <= kk /\ kk < kk')
        => printed'.ratio <= printed.ratio]_vars

C6_Witness ==
  /\ path = "color"
  /\ shape = <<4, 6>>
  /\ kk = 4
  /\ printed.raised = "none"
  /\ printed.ratio = 60

(***************************************************************************)
(* SpecSVD: truncation, reconstruction, energy fraction and rescale on     *)
(* small matrices.  Arithmetic is exact: a matrix is a tuple of rows of    *)
(* integers, and a factor triple is kept with integer direction vectors,   *)
(* column i of U being U[i] / |U[i]| and row i of Vt being Vt[i] / |Vt[i]|,*)
(* with N[i] = |U[i]| * |Vt[i]|.  The singular values S[i] are multiples   *)
(* of N[i], so every product U_k diag(S_k) Vt_k is an integer matrix.      *)
(***************************************************************************)
MaxWeight == 4

B33 == [rows |-> 3, cols |-> 3,
        U  |-> << <<1, 1, 1>>, <<1, -1, 0>>, <<1, 1, -2>> >>,
        Vt |-> << <<1, 1, 1>>, <<1, -1, 0>>, <<1, 1, -2>> >>,
        N  |-> <<3, 2, 6>>]

B23 == [rows |-> 2, cols |-> 3,
        U  |-> << <<1, 1>>, <<1, -1>> >>,
        Vt |-> << <<1, 1, 0>>, <<1, -1, 0>>, <<0, 0, 1>> >>,
        N  |-> <<2, 2>>]

B32 == [rows |-> 3, cols |-> 2,
        U  |-> << <<1, 1, 0>>, <<1, -1, 0>>, <<0, 0, 1>> >>,
        Vt |-> << <<1, 1>>, <<1, -1>> >>,
        N  |-> <<2, 2>>]

Bases == {B33, B23, B32}

RECURSIVE SeqSum(_)
SeqSum(s) == IF s = <<>> THEN 0 ELSE s[1] + SeqSum(Tail(s))

(* singular values as np.linalg.svd returns them: non-negative, descending; *)
(* the positive ones are taken distinct, which makes the truncation unique  *)
IsSpectrum(S) ==
  \A i \in 1..(Len(S) - 1) : S[i] > S[i + 1] \/ (S[i] = 0 /\ S[i + 1] = 0)

FactorsOf(B) ==
  LET m == Min2(B.rows, B.cols)
      all == {[rows |-> B.rows, cols |-> B.cols, U |-> B.U,
               S |-> [i \in 1..m |-> w[i] * B.N[i]], N |-> B.N, Vt |-> B.Vt] :
              w \in [1..m -> 0..MaxWeight]}
  IN  {F \in all : IsSpectrum(F.S)}

(* s[:k] *)
take(s, k) == SubSeq(s, 1, Min2(Len(s), k))

(* variant: the slices stop one triplet early, [:k-1] *)
slice_one_short(F, k) ==
  [rows |-> F.rows, cols |-> F.cols,
   U |-> take(F.U, Max2(k - 1, 0)), S |-> take(F.S, Max2(k - 1, 0)),
   N |-> take(F.N, Max2(k - 1, 0)), Vt |-> take(F.Vt, Max2(k - 1, 0))]

(* U[:, :k], S[:k], Vt[:k, :] *)
slice(F, k) ==
  [rows |-> F.rows, cols |-> F.cols,
   U |-> take(F.U, k), S |-> take(F.S, k), N |-> take(F.N, k), Vt |-> take(F.Vt, k)]

RECURSIVE TripletSum(_, _, _, _)
TripletSum(F, r, c, i) ==
  IF i = 0 THEN 0
  ELSE F.U[i][r] * (F.S[i] \div F.N[i]) * F.Vt[i][c] + TripletSum(F, r, c, i - 1)

(* U @ np.diag(S) @ Vt *)
matmul3(F) ==
  [r \in 1..F.rows |-> [c \in 1..F.cols |-> TripletSum(F, r, c, Len(F.S))]]

PixelsIn(A, lo, hi) ==
  \A r \in DOMAIN A : \A c \in DOMAIN A[r] : lo <= A[r][c] /\ A[r][c] <= hi

Factorizations == UNION {FactorsOf(B) : B \in Bases}

(* the images of a shape: the matrices with intensities in [0,255] that    *)
(* have a factorization in the family                                      *)
PlanesOf == [B \in Bases |-> {A \in {matmul3(F) : F \in FactorsOf(B)} : PixelsIn(A, 0, 255)}]

AllPlanes == UNION {PlanesOf[B] : B \in Bases}

(* the factors whose product is A *)
FactorsFor == [A \in AllPlanes |-> CHOOSE G \in Factorizations : matmul3(G) = A]

(* np.linalg.svd(A, full_matrices): the reduced form keeps min(rows, cols) *)
(* columns of U and rows of Vt                                             *)
linalg_svd(A, full_matrices) ==
  LET F == FactorsFor[A]
      m == Len(F.S)
  IN  IF full_matrices THEN F
      ELSE [F EXCEPT !.U = take(F.U, m), !.Vt = take(F.Vt, m)]

(* variant: the factors are multiplied in the transposed order,            *)
(* Vt_k.T @ np.diag(S_k) @ U_k.T                                           *)
truncated_product_transposed(A, k, full_matrices) ==
  LET P == matmul3(slice(linalg_svd(A, full_matrices), k))
  IN  [c \in 1..Len(A[1]) |-> [r \in 1..Len(A) |-> P[r][c]]]

(* U_k @ np.diag(S_k) @ Vt_k for the factors of A *)
truncated_product(A, k, full_matrices) ==
  matmul3(slice(linalg_svd(A, full_matrices), k))

(* the same, tabulated over the images and the ranks *)
TruncatedProducts ==
  [A \in AllPlanes |->
    [full_matrices \in BOOLEAN |->
      [k \in 0..Min2(Len(A), Len(A[1])) |-> truncated_product(A, k, full_matrices)]]]

(* variant: the values after the first k are summed, np.sum(S[k:]) *)
energy_fraction_tail(S, k) ==
  [num |-> SeqSum(SubSeq(S, Min2(Len(S), k) + 1, Len(S))), den |-> SeqSum(S)]

(* np.sum(S[:k]) / np.sum(S), kept as numerator and denominator; the       *)
(* quotient is NaN when the denominator is 0                               *)
energy_fraction(S, k) == [num |-> SeqSum(take(S, k)), den |-> SeqSum(S)]

(* compress_bw_image on the matrix A: the reconstruction and the marker of *)
(* the cumulative-sum plot                                                 *)
bw_reconstruct(A, k) ==
  [compressed_image |-> TruncatedProducts[A][FALSE][k],
   fraction         |-> energy_fraction(linalg_svd(A, FALSE).S, k)]

RowMax(row) == SeqMax(row)

PlaneMax(A) == SeqMax([r \in DOMAIN A |-> RowMax(A[r])])

(* np.amax over the stacked planes *)
amax(planes) == SeqMax([ch \in DOMAIN planes |-> PlaneMax(planes[ch])])

(* float to int32: the fractional part is dropped (toward zero) *)
TruncDiv(a, b) ==
  LET q == (IF a >= 0 THEN a ELSE -a) \div (IF b >= 0 THEN b ELSE -b)
  IN  IF (a >= 0) = (b >= 0) THEN q ELSE -q

(* the int32 a NaN is converted to is not defined; builds produce 0 or the *)
(* smallest int32                                                          *)
NanCastOutcomes == {0, (-2147483647) - 1}

(* np.array(compressed_image / np.amax(compressed_image) * 255, np.int32)  *)
rescale(compressed_image, nan_int32) ==
  LET mx == amax(compressed_image)
  IN  [ch \in DOMAIN compressed_image |->
        [r \in DOMAIN compressed_image[ch] |->
          [c \in DOMAIN compressed_image[ch][r] |->
            IF mx = 0 THEN nan_int32
            ELSE TruncDiv(compressed_image[ch][r][c] * 255, mx)]]]

(* .astype('uint8') of the int32 array: the value modulo 256 *)
astype_uint8(planes) ==
  [ch \in DOMAIN planes |->
    [r \in DOMAIN planes[ch] |->
      [c \in DOMAIN planes[ch][r] |-> planes[ch][r][c] % 256]]]

(* compress_color_image on the planes r, g, b of img *)
color_reconstruct(img, k, nan_int32) ==
  LET compressed_image == [ch \in 1..3 |-> TruncatedProducts[img[ch]][TRUE][k]]
  IN  [compressed_image       |-> compressed_image,
       compressed_image_final |-> rescale(compressed_image, nan_int32)]

(* the colour images of a shape: the red and the green plane are any two   *)
(* planes, the blue plane is one of them                                   *)
ColorImagesOf(B) ==
  {img \in PlanesOf[B] \X PlanesOf[B] \X PlanesOf[B] : img[3] \in {img[1], img[2]}}

SvdInit ==
  /\ SessionIdle
  /\ RatioIdle
  /\ CleanIdle
  /\ SpamIdle
  /\ \E B \in Bases :
       image \in {<<A>> : A \in PlanesOf[B]} \cup ColorImagesOf(B)
  /\ called = "none"
  /\ rank = 0
  /\ recon = <<>>
  /\ energy = [num |-> 0, den |-> 0]
  /\ final = <<>>

ImageRank == Min2(Len(image[1]), Len(image[1][1]))

SameShapePlanes ==
  {A \in AllPlanes : Len(A) = Len(image[1]) /\ Len(A[1]) = Len(image[1][1])}

(* compress_bw_image on a grayscale image *)
SvdCompressBw(k) ==
  /\ Len(image) = 1
  /\ LET res == bw_reconstruct(image[1], k)
     IN  /\ recon' = <<res.compressed_image>>
         /\ energy' = res.fraction
  /\ called' = "bw"
  /\ rank' = k
  /\ UNCHANGED <<image, final>>
  /\ UNCHANGED NotSvd

(* the conversion of NaN matters only when the rescale divides 0 by 0 *)
CastOutcomes(img, k) ==
  IF amax([ch \in 1..3 |-> TruncatedProducts[img[ch]][TRUE][k]]) = 0
  THEN NanCastOutcomes ELSE {0}

(* compress_color_image on a colour image *)
SvdCompressColor(k) ==
  /\ Len(image) = 3
  /\ \E nan_int32 \in CastOutcomes(image, k) :
       LET res == color_reconstruct(image, k, nan_int32)
       IN  /\ recon' = res.compressed_image
           /\ final' = res.compressed_image_final
  /\ called' = "color"
  /\ rank' = k
  /\ UNCHANGED <<image, energy>>
  /\ UNCHANGED NotSvd

(* compress_color_image, same k, on another colour image that has the same *)
(* red plane and other green and blue planes                               *)
SvdCompressColorOther(A) ==
  /\ called = "color"
  /\ A # image[2]
  /\ A # image[3]
  /\ image' = <<image[1], A, A>>
  /\ \E nan_int32 \in CastOutcomes(<<image[1], A, A>>, rank) :
       LET res == color_reconstruct(<<image[1], A, A>>, rank, nan_int32)
       IN  /\ recon' = res.compressed_image
           /\ final' = res.compressed_image_final
  /\ UNCHANGED <<called, rank, energy>>
  /\ UNCHANGED NotSvd

SvdNext ==
  \/ \E k \in 0..ImageRank : SvdCompressBw(k)
  \/ \E k \in 0..ImageRank : SvdCompressColor(k)
  \/ \E A \in SameShapePlanes : SvdCompressColorOther(A)

SpecSVD == SvdInit /\ [][SvdNext]_vars

(***************************************************************************)
(* Properties of the truncation and the rescale (SpecSVD).                 *)
(***************************************************************************)
(* comparisons of quotients; every comparison with NaN is false *)
FracLe(a, b) == a.den # 0 /\ b.den # 0 /\ a.num * b.den <= b.num * a.den

FracIn01(a) == a.den # 0 /\ 0 <= a.num /\ a.num <= a.den

TwoBwCalls == called = "bw" /\ called' = "bw" /\ rank < rank'

(* C7 as claimed: for k1 < k2 <= len(S) the retained-energy fraction       *)
(* sum(S[:k1])/sum(S) is <= sum(S[:k2])/sum(S) and both lie in [0,1],      *)
(* the all-zero image (sum(S) = 0) included.                               *)
C7_EnergyMonotone ==
  [][TwoBwCalls => FracLe(energy, energy') /\ FracIn01(energy) /\ FracIn01(energy')]_vars

(* C7 as amended: when sum(S) > 0 the fraction at k1 is <= the fraction at *)
(* k2 and both lie in [0,1]; sum(S) = 0 exactly for the all-zero image,    *)
(* and there both fractions are 0/0.                                       *)
C7_EnergyMonotoneUnlessZero ==
  [][TwoBwCalls =>
       IF PixelsIn(image[1], 0, 0)
       THEN energy.num = 0 /\ energy.den = 0 /\ energy'.num = 0 /\ energy'.den = 0
       ELSE FracLe(energy, energy') /\ FracIn01(energy) /\ FracIn01(energy')]_vars

C7_Witness ==
  /\ called = "bw"
  /\ image = << << <<8, 0, 1>>, <<0, 8, 1>>, <<1, 1, 7>> >> >>
  /\ rank = 2
  /\ energy = [num |-> 17, den |-> 23]

(* C8: with k = min(rows, cols) every singular triplet is kept and the     *)
(* reconstruction U_k S_k Vt_k reproduces the image, in the grayscale and  *)
(* in the colour path.                                                     *)
C8_FullRankReproduces ==
  (called \in {"bw", "color"} /\ rank = ImageRank) =>
    /\ recon = image
    /\ called = "bw" => energy.num = energy.den

C8_Witness ==
  /\ called = "color"
  /\ rank = 3
  /\ image[1] = << <<8, 0, 1>>, <<0, 8, 1>>, <<1, 1, 7>> >>
  /\ image[2] = << <<3, 1, 2>>, <<1, 3, 2>>, <<2, 2, 2>> >>
  /\ recon = image

(* C9: every element of compressed_image_final lies in [0,255], whatever   *)
(* the reconstructed values, negative ones included.                       *)
C9_FinalInDisplayRange ==
  (called = "color" /\ rank >= 1 /\ amax(recon) > 0) =>
    \A ch \in DOMAIN final : PixelsIn(final[ch], 0, 255)

(* C10: two colour images that agree on the red plane, compressed with the *)
(* same k, show the same red output plane.                                 *)
C10_RedPlaneIndependent ==
  [][(called = "color" /\ called' = "color" /\ rank' = rank /\ image'[1] = image[1])
       => astype_uint8(final')[1] = astype_uint8(final)[1]]_vars

(* the shape of a stack of planes: np.shape with the channel axis first *)
ShapeOf(planes) ==
  [ch \in DOMAIN planes |->
    <<Len(planes[ch]), [r \in DOMAIN planes[ch] |-> Len(planes[ch][r])]>>]

(* C11: for 1 <= k <= min(rows, cols) the reconstructed image has exactly  *)
(* the shape of the input image: rows x cols in compress_bw_image, rows x  *)
(* cols x 3 in compress_color_image (the rescaled array included).         *)
C11_ReconstructionKeepsShape ==
  (called \in {"bw", "color"} /\ 1 <= rank /\ rank <= ImageRank) =>
    /\ ShapeOf(recon) = ShapeOf(image)
    /\ called = "color" => ShapeOf(final) = ShapeOf(image)

C11_Witness ==
  /\ called = "color"
  /\ rank = 1
  /\ Len(image) = 3
  /\ Len(image[1]) = 2
  /\ Len(image[1][1]) = 3
  /\ ShapeOf(recon) = << <<2, <<3, 3>> >>, <<2, <<3, 3>> >>, <<2, <<3, 3>> >> >>

(***************************************************************************)
(* The spam notebook: text cleaning.  A string is a tuple of characters.   *)
(***************************************************************************)
MaxTextLen == 4

(* the characters of the model: two lower-case letters, an upper-case      *)
(* letter, two kinds of whitespace and a punctuation mark                  *)
Alphabet == {"a", "b", "A", " ", "\t", "?"}

(* str.lower(), per character *)
lower_char(c) == IF c = "A" THEN "a" ELSE c

(* str.lower() *)
str_lower(s) == [i \in 1..Len(s) |-> lower_char(s[i])]

(* the characters str.split() splits on *)
isspace(c) == c \in {" ", "\t"}

(* str.split(): the maximal runs of non-whitespace characters, in order *)
RECURSIVE split_from(_, _, _)
split_from(s, i, word) ==
  IF i > Len(s) THEN (IF word = <<>> THEN <<>> ELSE <<word>>)
  ELSE IF isspace(s[i])
       THEN (IF word = <<>> THEN <<>> ELSE <<word>>) \o split_from(s, i + 1, <<>>)
       ELSE split_from(s, i + 1, Append(word, s[i]))

str_split(s) == split_from(s, 1, <<>>)

(* str.isalpha(): at least one character, and every character a letter *)
isalpha(word) ==
  /\ word # <<>>
  /\ \A i \in 1..Len(word) : word[i] \in {"a", "b", "A"}

(* set(stopwords.words('english')): the stop words that can be spelled     *)
(* with the letters of the model                                           *)
stop_words == {<<"a">>}

(* word.isalpha() and not word in stop_words *)
keep_word(word) == isalpha(word) /\ word \notin stop_words

(* variant: the characters that are no letters are stripped from a word    *)
(* and the rest of the word is kept                                        *)
RECURSIVE strip_word(_)
strip_word(word) ==
  IF word = <<>> THEN <<>>
  ELSE (IF isalpha(<<word[1]>>) THEN <<word[1]>> ELSE <<>>) \o strip_word(Tail(word))

RECURSIVE filter_words_stripped(_)
filter_words_stripped(words) ==
  IF words = <<>> THEN <<>>
  ELSE (IF keep_word(strip_word(words[1])) THEN <<strip_word(words[1])>> ELSE <<>>)
         \o filter_words_stripped(Tail(words))

(* [word for word in text if ...] *)
RECURSIVE filter_words(_)
filter_words(words) ==
  IF words = <<>> THEN <<>>
  ELSE (IF keep_word(words[1]) THEN <<words[1]>> ELSE <<>>) \o filter_words(Tail(words))

(* ' '.join(words) *)
RECURSIVE join(_)
join(words) ==
  IF words = <<>> THEN <<>>
  ELSE IF Len(words) = 1 THEN words[1]
  ELSE words[1] \o <<" ">> \o join(Tail(words))

(* variant: the stop words are removed before the text is lower-cased *)
remove_stop_words_lower_last(t) ==
  str_lower(join(filter_words(str_split(t))))

remove_stop_words(t) ==
  join(filter_words(str_split(str_lower(t))))

RECURSIVE StringsUpTo(_)
StringsUpTo(n) ==
  IF n = 0 THEN {<<>>}
  ELSE LET shorter == StringsUpTo(n - 1)
       IN  shorter \cup {Append(s, c) : s \in {u \in shorter : Len(u) = n - 1}, c \in Alphabet}

CleanInit ==
  /\ SessionIdle
  /\ RatioIdle
  /\ SvdIdle
  /\ SpamIdle
  /\ text \in StringsUpTo(MaxTextLen)
  /\ cleaned_text = <<>>
  /\ passes = 0

(* cleaned_text = remove_stop_words(text) *)
Clean ==
  /\ passes = 0
  /\ cleaned_text' = remove_stop_words(text)
  /\ passes' = 1
  /\ UNCHANGED text
  /\ UNCHANGED NotClean

(* remove_stop_words applied to its own output *)
CleanAgain ==
  /\ passes = 1
  /\ cleaned_text' = remove_stop_words(cleaned_text)
  /\ passes' = 2
  /\ UNCHANGED text
  /\ UNCHANGED NotClean

CleanNext == Clean \/ CleanAgain

SpecClean == CleanInit /\ [][CleanNext]_vars

(* C13: remove_stop_words is idempotent: applied to its own output it      *)
(* returns that output, the same string.                                   *)
C13_CleanIdempotent ==
  [][(passes = 1 /\ passes' = 2) => cleaned_text' = cleaned_text]_vars

C13_Witness ==
  /\ passes = 2
  /\ text = <<"A", "b", "\t", "b">>
  /\ cleaned_text = <<"a", "b", " ", "b">>

(* the whitespace-separated tokens of t, as the pairs of their first and   *)
(* last position                                                           *)
TokensOf(t) ==
  {I \in (1..Len(t)) \X (1..Len(t)) :
     /\ I[1] <= I[2]
     /\ \A h \in I[1]..I[2] : ~isspace(t[h])
     /\ I[1] = 1 \/ isspace(t[I[1] - 1])
     /\ I[2] = Len(t) \/ isspace(t[I[2] + 1])}

(* the tokens that, lower-cased, are letters only and no stop word *)
KeptTokens(t) ==
  {I \in TokensOf(t) :
     /\ \A h \in I[1]..I[2] : isalpha(<<lower_char(t[h])>>)
     /\ [h \in 1..(I[2] - I[1] + 1) |-> lower_char(t[I[1] + h - 1])] \notin stop_words}

(* where the token I starts in the output: after the characters of the     *)
(* kept tokens before it and one space for each of them                    *)
OffsetOf(t, I) ==
  Cardinality({h \in 1..(I[1] - 1) : \E J \in KeptTokens(t) : J[1] <= h /\ h <= J[2]})
    + Cardinality({J \in KeptTokens(t) : J[2] < I[1]})

(* C21: the output of remove_stop_words is, in order, the lower-cased      *)
(* whitespace-separated tokens of the input that are letters only and no   *)
(* stop words, joined by single spaces, and nothing else: a token with a   *)
(* character that is no letter is dropped whole.                           *)
C21_OutputIsKeptTokens ==
  passes = 1 =>
    LET K == KeptTokens(text)
        letters == Cardinality({h \in 1..Len(text) : \E J \in K : J[1] <= h /\ h <= J[2]})
    IN  /\ Len(cleaned_text) = letters + (IF K = {} THEN 0 ELSE Cardinality(K) - 1)
        /\ \A I \in K :
             /\ \A h \in I[1]..I[2] :
                  cleaned_text[OffsetOf(text, I) + h - I[1] + 1] = lower_char(text[h])
             /\ (\E J \in K : J[1] > I[1]) =>
                  cleaned_text[OffsetOf(text, I) + I[2] - I[1] + 2] = " "

C21_Witness ==
  /\ passes = 1
  /\ text = <<"b", "?", " ", "b">>
  /\ cleaned_text = <<"b">>


(***************************************************************************)
(* The spam notebook: data set, Tokenizer, pad_sequences, models and       *)
(* inference.  max_words and max_length are 20000 and 500 in the notebook; *)
(* the model is checked with small values of both.                         *)
(***************************************************************************)
max_words == 3
max_length == 3
MaxRows == 2

(* the text made of n copies of a word, separated by single spaces *)
RECURSIVE Repeat(_, _)
Repeat(word, n) ==
  IF n = 0 THEN <<>>
  ELSE IF n = 1 THEN word
  ELSE word \o <<" ">> \o Repeat(word, n - 1)

(* the e-mail texts of the data set: "ab b", "A b?" (nothing is left of it *)
(* after cleaning) and "bb b ... b" with max_length + 1 words              *)
CorpusTexts ==
  {<<"a", "b", " ", "b">>, <<"A", " ", "b", "?">>,
   <<"b", "b", " ">> \o Repeat(<<"b">>, max_length)}

(* the rows of ham-spam.csv: a label and a text *)
Records == {[IsSpam |-> l, Text |-> t] : l \in {0, 1}, t \in CorpusTexts}

RECURSIVE SeqsUpTo(_, _)
SeqsUpTo(S, n) ==
  IF n = 0 THEN {<<>>}
  ELSE LET shorter == SeqsUpTo(S, n - 1)
       IN  shorter \cup {Append(q, e) : q \in {u \in shorter : Len(u) = n - 1}, e \in S}

Datasets == SeqsUpTo(Records, MaxRows) \ {<<>>}

(* the e-mails classified: the empty one, "ab b", "ba b ... b" (a word no  *)
(* text of the data set has, then max_length words) and "bb b ... b" with  *)
(* max_length + 1 words, the first unlike the others                       *)
TestEmails ==
  {<<>>, <<"a", "b", " ", "b">>, <<"b", "a", " ">> \o Repeat(<<"b">>, max_length),
   <<"b", "b", " ">> \o Repeat(<<"b">>, max_length)}

(* remove_stop_words on the e-mails classified, tabulated *)
CleanedEmails == [test_email \in TestEmails |-> remove_stop_words(test_email)]

Range(q) == {q[i] : i \in DOMAIN q}

(* variant: df.drop_duplicates(subset = 'Text'), rows compared by text *)
RECURSIVE drop_duplicates_by_text(_)
drop_duplicates_by_text(rows) ==
  IF rows = <<>> THEN <<>>
  ELSE LET n == Len(rows)
           front == SubSeq(rows, 1, n - 1)
       IN  IF \E j \in 1..(n - 1) : rows[j].Text = rows[n].Text
           THEN drop_duplicates_by_text(front)
           ELSE Append(drop_duplicates_by_text(front), rows[n])

(* df.drop_duplicates(): a row is dropped when an earlier row equals it in *)
(* every column; the first occurrence stays, the order is kept             *)
RECURSIVE drop_duplicates(_)
drop_duplicates(rows) ==
  IF rows = <<>> THEN <<>>
  ELSE LET n == Len(rows)
           front == SubSeq(rows, 1, n - 1)
       IN  IF \E j \in 1..(n - 1) : rows[j] = rows[n]
           THEN drop_duplicates(front)
           ELSE Append(drop_duplicates(front), rows[n])

(* df.apply(lambda row: remove_stop_words(row['Text']), axis=1) *)
clean_rows(rows) == [i \in DOMAIN rows |-> remove_stop_words(rows[i].Text)]

(* the characters Tokenizer replaces by a space (its default filters) *)
keras_filters == {"?", "\t"}

RECURSIVE keras_split_from(_, _, _)
keras_split_from(s, i, word) ==
  IF i > Len(s) THEN (IF word = <<>> THEN <<>> ELSE <<word>>)
  ELSE IF s[i] = " " \/ s[i] \in keras_filters
       THEN (IF word = <<>> THEN <<>> ELSE <<word>>) \o keras_split_from(s, i + 1, <<>>)
       ELSE keras_split_from(s, i + 1, Append(word, s[i]))

(* keras text_to_word_sequence: lower-case, filters to spaces, split on    *)
(* ' ', empty pieces dropped                                               *)
text_to_word_sequence(t) == keras_split_from(str_lower(t), 1, <<>>)

(* Tokenizer(num_words=...) *)
Tokenizer(num_words) == [num_words |-> num_words, word_counts |-> <<>>, word_index |-> <<>>]

(* word_counts[w] += 1, a new word going to the end (OrderedDict) *)
count_word(word_counts, w) ==
  IF \E i \in DOMAIN word_counts : word_counts[i].word = w
  THEN [i \in DOMAIN word_counts |->
         IF word_counts[i].word = w
         THEN [word |-> w, count |-> word_counts[i].count + 1]
         ELSE word_counts[i]]
  ELSE Append(word_counts, [word |-> w, count |-> 1])

RECURSIVE count_words(_, _)
count_words(word_counts, words) ==
  IF words = <<>> THEN word_counts
  ELSE count_words(count_word(word_counts, words[1]), Tail(words))

RECURSIVE count_texts(_, _)
count_texts(word_counts, texts) ==
  IF texts = <<>> THEN word_counts
  ELSE count_texts(count_words(word_counts, text_to_word_sequence(texts[1])), Tail(texts))

(* wcounts.sort(key=count, reverse=True): by falling count, words of equal *)
(* count in the order they were first met; word_index[w] is the position   *)
sorted_voc(word_counts) ==
  LET n == Len(word_counts)
      before(q, p) ==
        \/ word_counts[q].count > word_counts[p].count
        \/ word_counts[q].count = word_counts[p].count /\ q < p
      place(p) == 1 + Cardinality({q \in 1..n : before(q, p)})
  IN  [i \in 1..n |-> word_counts[CHOOSE p \in 1..n : place(p) = i].word]

(* tokenizer.fit_on_texts(texts) *)
fit_on_texts(tok, texts) ==
  LET wc == count_texts(tok.word_counts, texts)
  IN  [tok EXCEPT !.word_counts = wc, !.word_index = sorted_voc(wc)]

(* word_index.get(w), 0 standing for None *)
word_index_get(tok, w) ==
  IF \E i \in DOMAIN tok.word_index : tok.word_index[i] = w
  THEN CHOOSE i \in DOMAIN tok.word_index : tok.word_index[i] = w
  ELSE 0

(* variant: the cap lets the index num_words through, i > num_words *)
keep_index_inclusive(tok, i) == i # 0 /\ ~(i > tok.num_words)

(* i is not None and not (num_words and i >= num_words) *)
keep_index(tok, i) == i # 0 /\ ~(i >= tok.num_words)

RECURSIVE words_to_ids(_, _)
words_to_ids(tok, words) ==
  IF words = <<>> THEN <<>>
  ELSE LET i == word_index_get(tok, words[1])
       IN  (IF keep_index(tok, i) THEN <<i>> ELSE <<>>) \o words_to_ids(tok, Tail(words))

(* variant: the call counts the words of its texts into the vocabulary     *)
(* before it looks them up                                                 *)
texts_to_sequences_refit(tok, texts) ==
  LET tok2 == fit_on_texts(tok, texts)
  IN  [tokenizer |-> tok2,
       sequences |-> [i \in DOMAIN texts |-> words_to_ids(tok2, text_to_word_sequence(texts[i]))]]

(* tokenizer.texts_to_sequences(texts): the tokenizer after the call and   *)
(* the list of id lists                                                    *)
texts_to_sequences(tok, texts) ==
  [tokenizer |-> tok,
   sequences |-> [i \in DOMAIN texts |-> words_to_ids(tok, text_to_word_sequence(texts[i]))]]

(* variant: padding='post', truncating='post': the first maxlen ids are    *)
(* kept and the zeros come after them                                      *)
pad_one_post(seq, maxlen) ==
  LET trunc == SubSeq(seq, 1, Min2(Len(seq), maxlen))
  IN  trunc \o [j \in 1..(maxlen - Len(trunc)) |-> 0]

(* variant: one zero too few is put in front *)
pad_one_short(seq, maxlen) ==
  LET trunc == SubSeq(seq, Max2(1, Len(seq) - maxlen + 1), Len(seq))
  IN  [j \in 1..(maxlen - Len(trunc) - 1) |-> 0] \o trunc

(* variant: a long sequence is not cut *)
pad_one_uncut(seq, maxlen) ==
  [j \in 1..(maxlen - Len(seq)) |-> 0] \o seq

(* one row of pad_sequences: trunc = s[-maxlen:], zeros in front *)
pad_one(seq, maxlen) ==
  LET trunc == SubSeq(seq, Max2(1, Len(seq) - maxlen + 1), Len(seq))
  IN  [j \in 1..(maxlen - Len(trunc)) |-> 0] \o trunc

(* pad_sequences(sequences, maxlen=maxlen) *)
pad_sequences(sequences, maxlen) ==
  [i \in DOMAIN sequences |-> pad_one(sequences[i], maxlen)]

(* Sequential with Embedding(input_dim, 32, input_length=...) first *)
(* trained counts the epochs that have changed the parameters since they   *)
(* were initialized                                                        *)
Sequential(kind, input_dim, input_length) ==
  [kind |-> kind, input_dim |-> input_dim, input_length |-> input_length,
   fitted |-> FALSE, trained |-> 0]

epochs == 5

(* variant: the epochs train a copy, the object bound to `model` stays as  *)
(* it was built                                                            *)
fit_a_copy(m, n) == m

(* model.fit(..., epochs=n): the parameters are changed in place *)
fit(m, n) == [m EXCEPT !.fitted = TRUE, !.trained = @ + n]

(* variant: the embedding table has no row for the padding id 0 *)
accepts_no_padding(m, batch) ==
  \A i \in DOMAIN batch :
    /\ Len(batch[i]) = m.input_length
    /\ \A j \in DOMAIN batch[i] : 0 < batch[i][j] /\ batch[i][j] < m.input_dim

(* the rows and ids the model accepts: rows of input_length ids, each an   *)
(* index of the embedding table                                            *)
accepts(m, batch) ==
  \A i \in DOMAIN batch :
    /\ Len(batch[i]) = m.input_length
    /\ \A j \in DOMAIN batch[i] : 0 <= batch[i][j] /\ batch[i][j] < m.input_dim

(* probabilities in thousandths; 0.5 is 500 *)
half == 500

Probabilities == {half - 1, half, half + 1}

(* model.predict(batch): the array [[p]] with the probability p the        *)
(* network computes, or the exception of a batch the first layer does not  *)
(* accept                                                                  *)
predict(m, batch, p) ==
  IF accepts(m, batch) THEN [raised |-> FALSE, value |-> << <<p>> >>]
  ELSE [raised |-> TRUE, value |-> <<>>]

(* variant: 'SPAM' if prediction >= 0.5 *)
classification_at_least(prediction) == IF prediction >= half THEN "SPAM" ELSE "NOT SPAM"

(* 'SPAM' if prediction > 0.5 else 'NOT SPAM' *)
classification(prediction) == IF prediction > half THEN "SPAM" ELSE "NOT SPAM"

SpamInit ==
  /\ SessionIdle
  /\ RatioIdle
  /\ SvdIdle
  /\ CleanIdle
  /\ pc = "read_csv"
  /\ df \in Datasets
  /\ x = <<>>
  /\ y = <<>>
  /\ tokenizer = NoTokenizer
  /\ model = NoModel
  /\ infer = NoInference

(* df = df.drop_duplicates() *)
DropDuplicates ==
  /\ pc = "read_csv"
  /\ df' = drop_duplicates(df)
  /\ pc' = "drop_duplicates"
  /\ UNCHANGED <<x, y, tokenizer, model, infer>>
  /\ UNCHANGED NotSpam

(* x = df.apply(remove_stop_words ...); y = df['IsSpam'] *)
CleanCell ==
  /\ pc = "drop_duplicates"
  /\ x' = clean_rows(df)
  /\ y' = [i \in DOMAIN df |-> df[i].IsSpam]
  /\ pc' = "clean"
  /\ UNCHANGED <<df, tokenizer, model, infer>>
  /\ UNCHANGED NotSpam

(* the cell that creates the Tokenizer, fits it and pads the sequences *)
TokenizerCell ==
  /\ pc = "clean"
  /\ LET res == texts_to_sequences(fit_on_texts(Tokenizer(max_words), x), x)
     IN  /\ tokenizer' = res.tokenizer
         /\ x' = pad_sequences(res.sequences, max_length)
  /\ pc' = "tokenize"
  /\ UNCHANGED <<df, y, model, infer>>
  /\ UNCHANGED NotSpam

(* the cells that build a model: two dense networks, then the CNN *)
BuildModel ==
  /\ \/ pc = "tokenize" /\ pc' = "dense_1" /\ model' = Sequential("dense", max_words, max_length)
     \/ pc = "dense_1" /\ pc' = "dense_2" /\ model' = Sequential("dense", max_words, max_length)
     \/ pc = "fit_dense" /\ pc' = "cnn" /\ model' = Sequential("cnn", max_words, max_length)
  /\ UNCHANGED <<df, x, y, tokenizer, infer>>
  /\ UNCHANGED NotSpam

(* hist = model.fit(x, y, validation_split=0.2, epochs=5, batch_size=20) *)
FitModel ==
  /\ \/ pc = "dense_2" /\ pc' = "fit_dense"
     \/ pc = "cnn" /\ pc' = "fit_cnn"
  /\ accepts(model, x)
  /\ model' = fit(model, epochs)
  /\ UNCHANGED <<df, x, y, tokenizer, infer>>
  /\ UNCHANGED NotSpam

(* an inference cell on the e-mail test_email; the network answers p.  The *)
(* last cell also prints the classification.  prediction is <<>> while it  *)
(* is not assigned.                                                        *)
Inference(cell, test_email) ==
  /\ pc \in {"fit_cnn", "inference"}
  /\ LET cleaned == CleanedEmails[test_email]
         res     == texts_to_sequences(tokenizer, <<cleaned>>)
         padded  == pad_sequences(res.sequences, max_length)
     IN  /\ tokenizer' = res.tokenizer
         /\ \E p \in Probabilities :
              LET outcome == predict(model, padded, p)
              IN  infer' = [cell |-> cell, test_email |-> test_email,
                            cleaned_text |-> cleaned, sequence |-> res.sequences,
                            padded_sequence |-> padded, raised |-> outcome.raised,
                            prediction |-> IF outcome.raised THEN <<>>
                                           ELSE <<outcome.value[1][1]>>,
                            label |-> IF cell = "classify" /\ ~outcome.raised
                                      THEN classification(outcome.value[1][1])
                                      ELSE "none"]
  /\ pc' = "inference"
  /\ UNCHANGED <<df, x, y, model>>
  /\ UNCHANGED NotSpam

(* the cells that show the probability only *)
Probe(test_email) == Inference("probe", test_email)

(* the cell that prints the probability and the classification *)
Classify(test_email) == Inference("classify", test_email)

SpamNext ==
  \/ DropDuplicates
  \/ CleanCell
  \/ TokenizerCell
  \/ BuildModel
  \/ FitModel
  \/ \E test_email \in TestEmails : Probe(test_email)
  \/ \E test_email \in TestEmails : Classify(test_email)

SpecSpam == SpamInit /\ [][SpamNext]_vars

(***************************************************************************)
(* Properties of the spam notebook (SpecSpam).                             *)
(***************************************************************************)
Deduplicated == pc \notin {"none", "read_csv"}

(* C12 as claimed: after the deduplication step no two records have the    *)
(* same text, rows with the same text and different labels included.       *)
C12_NoTwoRowsShareText ==
  Deduplicated =>
    \A i, j \in DOMAIN df : i # j => df[i].Text # df[j].Text

(* C12 as amended: the deduplication step compares whole rows: afterwards  *)
(* no two records are equal in both label and text, and every (label,      *)
(* text) row of the file is still there, so rows with the same text and    *)
(* different labels both survive.                                          *)
C12_NoTwoRowsEqual ==
  [][(pc = "read_csv" /\ pc' = "drop_duplicates") =>
       /\ \A i, j \in DOMAIN df' : i # j => df'[i] # df'[j]
       /\ Range(df') = Range(df)]_vars

C12_Witness ==
  /\ pc = "drop_duplicates"
  /\ Len(df) = 2
  /\ df[1].Text = df[2].Text
  /\ df[1].IsSpam = 0
  /\ df[2].IsSpam = 1

Tokenized == pc \in {"tokenize", "dense_1", "dense_2", "fit_dense", "cnn", "fit_cnn", "inference"}

(* C14: the vocabulary is built once, by fit_on_texts on the cleaned       *)
(* training texts, and no later texts_to_sequences / pad_sequences call    *)
(* changes it; so a cleaned text gets the same fixed-length sequence       *)
(* whenever it is converted: at inference the row an e-mail gets is the    *)
(* row the same cleaned text got at training, and two inference calls in a *)
(* row on the same cleaned text give the same row.                         *)
C14_VocabularyFixed ==
  /\ [](Tokenized => tokenizer = fit_on_texts(Tokenizer(max_words), clean_rows(df)))
  /\ [][Tokenized => tokenizer' = tokenizer]_vars
  /\ [](pc = "inference" =>
          \A i \in DOMAIN df :
            remove_stop_words(df[i].Text) = infer.cleaned_text
              => infer.padded_sequence[1] = x[i])
  /\ [][(pc = "inference" /\ pc' = "inference" /\ infer'.cleaned_text = infer.cleaned_text)
          => infer'.padded_sequence = infer.padded_sequence]_vars

C14_Witness ==
  /\ pc = "inference"
  /\ Len(df) = 2
  /\ df[1].Text = <<"a", "b", " ", "b">>
  /\ infer.cleaned_text = <<"a", "b", " ", "b">>
  /\ infer.padded_sequence[1] = x[1]
  /\ infer.sequence = << <<2, 1>> >>
  /\ tokenizer.word_index = << <<"b">>, <<"a", "b">>, <<"b", "b">> >>

Zeros(n) == [j \in 1..n |-> 0]

(* C15: remove_stop_words of the empty string is the empty string, and     *)
(* tokenizing and padding it gives a sequence of max_length zeros.         *)
C15_EmptyEmailAllZeros ==
  (pc = "inference" /\ infer.test_email = <<>>) =>
    /\ infer.cleaned_text = <<>>
    /\ infer.sequence = << <<>> >>
    /\ infer.padded_sequence = <<Zeros(max_length)>>

C15_Witness ==
  /\ pc = "inference"
  /\ infer.cell = "probe"
  /\ infer.test_email = <<>>
  /\ infer.cleaned_text = <<>>
  /\ Len(infer.padded_sequence[1]) = max_length
  /\ tokenizer.word_index # <<>>

(* C16 as claimed: the empty e-mail is not handled: the inference steps    *)
(* on it end in a raised exception instead of a probability.               *)
C16_EmptyEmailRaises ==
  (pc = "inference" /\ infer.test_email = <<>>) =>
    infer.raised /\ infer.prediction = <<>>

(* C16 as amended: the inference steps on the empty e-mail raise nothing:  *)
(* predict gets the all-padding row and returns a probability, and the     *)
(* last cell prints a classification for it.                               *)
C16_EmptyEmailPredicted ==
  (pc = "inference" /\ infer.test_email = <<>>) =>
    /\ ~infer.raised
    /\ \E p \in Probabilities : infer.prediction = <<p>>
    /\ infer.cell = "classify" => infer.label \in {"SPAM", "NOT SPAM"}

C16_Witness ==
  /\ pc = "inference"
  /\ infer.cell = "classify"
  /\ infer.test_email = <<>>
  /\ ~infer.raised
  /\ infer.prediction = <<half>>
  /\ infer.label = "NOT SPAM"

(* C17: every padded sequence has length exactly max_length, whether the   *)
(* cleaned text has no, fewer than, exactly or more than max_length words  *)
(* of the vocabulary: the rows of x after the tokenizer cell and the row   *)
(* of every inference cell.                                                *)
C17_PaddedLength ==
  /\ Tokenized => \A i \in DOMAIN x : Len(x[i]) = max_length
  /\ pc = "inference" =>
       /\ Len(infer.padded_sequence) = 1
       /\ Len(infer.padded_sequence[1]) = max_length

C17_Witness ==
  /\ pc = "inference"
  /\ Len(infer.sequence[1]) = max_length + 1
  /\ Len(infer.padded_sequence[1]) = max_length
  /\ \E i \in DOMAIN x : x[i] = Zeros(max_length)
  /\ \E i \in DOMAIN x : x[i][1] # 0

(* ids of the embedding table, 0 only in the padding in front *)
RowInTable(row) ==
  /\ \A j \in DOMAIN row : 0 <= row[j] /\ row[j] < max_words
  /\ \A j \in DOMAIN row : row[j] = 0 => \A h \in 1..j : row[h] = 0

(* the words of a cleaned text that have an id below the cap *)
WordsBelowCap(cleaned) ==
  LET words == str_split(cleaned)
  IN  {h \in DOMAIN words :
         \E i \in DOMAIN tokenizer.word_index :
           i < max_words /\ tokenizer.word_index[i] = words[h]}

(* C18: every integer of a sequence fed to a model is in 0..max_words-1,   *)
(* 0 only as padding: words whose rank is at or beyond the cap and words   *)
(* absent from the vocabulary get no id, so every input indexes inside     *)
(* the Embedding(max_words, ...) table.                                    *)
C18_IdsInsideEmbedding ==
  /\ Tokenized => \A i \in DOMAIN x : RowInTable(x[i])
  /\ pc \notin {"none", "read_csv", "drop_duplicates", "clean", "tokenize"} =>
       /\ model.input_dim = max_words
       /\ accepts(model, x)
  /\ pc = "inference" =>
       /\ RowInTable(infer.padded_sequence[1])
       /\ \A j \in DOMAIN infer.sequence[1] : infer.sequence[1][j] # 0
       /\ Len(infer.sequence[1]) = Cardinality(WordsBelowCap(infer.cleaned_text))
       /\ accepts(model, infer.padded_sequence)
       /\ ~infer.raised

C18_Witness ==
  /\ pc = "inference"
  /\ Len(tokenizer.word_index) = 3
  /\ max_words = 3
  /\ Len(x) = 2
  /\ x[2] = <<1, 1, 1>>
  /\ infer.cleaned_text = <<"b", "a", " ", "b", " ", "b", " ", "b">>
  /\ infer.sequence = << <<1, 1, 1>> >>

(* C19: the classification printed is SPAM exactly when the probability is *)
(* strictly above 0.5; at exactly 0.5, and below, it is NOT SPAM.          *)
C19_ThresholdStrict ==
  (pc = "inference" /\ infer.cell = "classify" /\ ~infer.raised) =>
    /\ infer.label \in {"SPAM", "NOT SPAM"}
    /\ infer.label = "SPAM" <=> infer.prediction[1] > half
    /\ infer.prediction[1] = half => infer.label = "NOT SPAM"

C19_Witness ==
  /\ pc = "inference"
  /\ infer.cell = "classify"
  /\ infer.test_email = <<"a", "b", " ", "b">>
  /\ infer.prediction = <<half>>
  /\ infer.label = "NOT SPAM"

(***************************************************************************)
(* The cache read of compress_bw_image (Spec).                             *)
(***************************************************************************)
(* C20: whenever compress_bw_image reads svd_cache[Image_Name] the entry   *)
(* exists, in any order of calls and with or without the initialization    *)
(* loop; and when the initialization loop is through, before the first     *)
(* interactive call, every name of bw_images has an entry.                 *)
C20_CacheReadHits ==
  /\ last.fn = "compress_bw_image" =>
       /\ last.read = "ok"
       /\ last.Image_Name \in DOMAIN svd_cache
  /\ loop_i = Len(image_keys) + 1 => DOMAIN svd_cache = ImageNames

C20_Witness ==
  /\ last.fn = "compress_bw_image"
  /\ last.read = "ok"
  /\ loop_i = 0
  /\ DOMAIN svd_cache = {last.Image_Name}
  /\ svd_runs[last.Image_Name] = 1
  /\ last.Image_Name # image_keys[1]

(* C23: for every k the colour slider delivers, the compressed size that   *)
(* compress_color_image computes is at least 1 and size1/size2 is defined, *)
(* so the call prints a ratio and raises nothing.                          *)
C23_ColorRatioDefined ==
  last.fn = "compress_color_image" =>
    /\ last.out.size2 >= 1
    /\ last.out.raised = "none"
    /\ last.out.ratio >= 0

(* the row pad_sequences makes of the id list seq with its defaults: place *)
(* j holds 0 while j <= max_length - n, and then the ids up to the last    *)
PrePadded(seq, row) ==
  LET n == Len(seq)
  IN  /\ Len(row) = max_length
      /\ \A j \in 1..max_length :
           row[j] = IF j <= max_length - n THEN 0 ELSE seq[n - max_length + j]

(* C24: padding and truncation act at the front: n < max_length ids give   *)
(* max_length - n zeros and then the n ids in order, n > max_length ids    *)
(* give the last max_length ids; for the rows of x made by the tokenizer   *)
(* cell and for the row of every inference cell.                           *)
C24_PadAndCutInFront ==
  /\ Tokenized =>
       LET sequences == texts_to_sequences(tokenizer, clean_rows(df)).sequences
       IN  \A i \in DOMAIN x : PrePadded(sequences[i], x[i])
  /\ pc = "inference" => PrePadded(infer.sequence[1], infer.padded_sequence[1])

C24_Witness ==
  /\ pc = "inference"
  /\ infer.sequence = << <<2, 1, 1, 1>> >>
  /\ infer.padded_sequence = << <<1, 1, 1>> >>
  /\ \E i \in DOMAIN x : x[i] = <<0, 0, 0>>

(* C22: with the cells run in order every model.predict call is made on a  *)
(* fitted model, the CNN that was bound to `model` last, and from the fit  *)
(* of the CNN on nothing fits or changes the model, so all inference cells *)
(* predict with the same parameters.                                       *)
C22_PredictOnFittedCnn ==
  /\ [](pc = "inference" =>
          /\ model.kind = "cnn"
          /\ model.fitted
          /\ model.trained = epochs)
  /\ [][(pc \in {"fit_cnn", "inference"}) => (model' = model)]_vars

C22_Witness ==
  /\ pc = "inference"
  /\ infer.cell = "classify"
  /\ infer.prediction = <<half + 1>>
  /\ model = [kind |-> "cnn", input_dim |-> max_words, input_length |-> max_length,
              fitted |-> TRUE, trained |-> epochs]

====
